---- MODULE Spec2Model ----
(***************************************************************************)
(* The hastur Go client (src/hastur.go, the package that starts at line    *)
(* 459): process-wide configuration, the label resolver, the message       *)
(* builders and send with its fallback log.                                *)
(*                                                                         *)
(* Every exported function is one action: the library has no locks and a   *)
(* single caller thread runs each call to completion.  A panic that leaves *)
(* a library call ends the process (crashed): the program has no recover.  *)
(* TimeFull, Time and TimeCurrent run caller code and then call GaugeFull: *)
(* they are covered by GaugeFull and Gauge.                                *)
(*                                                                         *)
(* Spec is that caller thread alone.  SpecOrder adds the history of its    *)
(* writes, SpecPure applies one builder to arguments around its limits,    *)
(* SpecEvery and SpecTickersFair add Start, Every and their goroutines,    *)
(* and SpecThreads splits the setters and the callbacks into steps so that *)
(* the two threads interleave.                                             *)
(***************************************************************************)
EXTENDS Integers, Sequences, FiniteSets, TLC

\* Fuel of the send -> Log -> LogFull -> send recursion: the code has no
\* limit of its own, the model stops unfolding at this depth.
MaxDepth == 4

(***************************************************************************)
(* Values                                                                  *)
(***************************************************************************)
\* make(chan bool): a value encoding/json refuses (UnsupportedTypeError).
Chan == "chan bool"
\* math.NaN(): a float64 encoding/json refuses (UnsupportedValueError).
NaN == "NaN"
\* os.Getpid() and os.Args[0]: fixed for the life of the process.
Getpid == "4242"
Args0 == "hastur.test"

\* The nil net.Conn.
NoConn == [addr |-> "", port |-> 0]

\* A Go string: its text (pieces, in order) and its len() in bytes.  A
\* slice s[:n] keeps the text and shortens the length.
Str(text, len) == [text |-> text, len |-> len, width |-> 1]

\* A string of runes characters that take width bytes each in UTF-8; len is
\* what len(s) returns, the number of bytes.
Utf8(text, runes, width) == [text |-> text, len |-> runes * width, width |-> width]

EmptyMap == [k \in {} |-> ""]

\* m2 copied over m1, key by key (for k, v := range m2 { m1[k] = v }).
Overlay(m1, m2) ==
    [k \in DOMAIN m1 \cup DOMAIN m2 |-> IF k \in DOMAIN m2 THEN m2[k] ELSE m1[k]]

\* delete(m, k) for every k of keys.
Without(m, keys) == [k \in DOMAIN m \ keys |-> m[k]]

(***************************************************************************)
(* Inputs                                                                  *)
(***************************************************************************)
DefaultUdpPort == 8125
TestUdpPort == 8126

Addresses == {"127.0.0.1", "no.such.host"}
Ports == {DefaultUdpPort, TestUdpPort}
\* The hosts net.Dial resolves.
Resolvable == {"127.0.0.1"}

AppNames == {"", "real.name"}
EnvNames == {"", "env.name"}

ReservedKeys == {"app", "pid"}
PlainKeys == {"label1", "label2"}

\* Maps given to AddDefaultLabels.
AddInputs ==
    { EmptyMap,
      [label2 |-> "value2"],
      [label2 |-> "other2"],
      [label2 |-> Chan],
      [app |-> "stored.app"],
      [pid |-> "stored.pid", label2 |-> "value2"] }

\* Key lists given to RemoveDefaultLabels.
RemoveInputs == { {}, {"label2"}, {"app"}, {"pid"}, {"app", "pid", "label2"} }

\* Label maps given to the Full builders.
CallerLabels ==
    { EmptyMap,
      [label1 |-> "value1", label2 |-> "mine2"],
      [label1 |-> "value1", app |-> "caller.app", pid |-> "caller.pid"],
      [foo |-> Chan] }

\* time.Time values, in nanoseconds since the epoch.
Times == {1352000123}

LogData == {"there", Chan}
GaugeValues == {"1.234", NaN}
ProcessData == { [haz |-> "data"], [name |-> "mine", haz |-> Chan] }

VARIABLES
    udpAddress,     \* var udpAddress
    udpPort,        \* var udpPort
    appName,        \* var appName
    conn,           \* var conn: the target the socket is connected to, or NoConn
    defaultLabels,  \* var defaultLabels
    recurringSend,  \* var recurringSend
    environ,        \* the HASTUR_APP_NAME environment variable
    crashed,        \* a panic has ended the process
    last,           \* history: the most recent call and what it wrote
    lastOp,         \* history: per plain key, the latest Add/Remove that names it
    calls,          \* history: per builder call so far, whether its message encodes
    written,        \* history: the conn.Write calls so far, in order
    pure,           \* the latest application of a pure function: input and result
    SendProcessHeartbeat,   \* var SendProcessHeartbeat
    starts,         \* history: per call of Start, the value the flag had
    tickers,        \* the goroutines Every has started, each with its ticker
    mainPc,         \* the configuration call the caller's thread is inside of
    wrote           \* history: who has written which type of message

\* The variables of the bookkeeping, of the pure functions and of the threads.
orderVars == <<calls, written>>
pureVars == <<pure>>
threadVars == <<SendProcessHeartbeat, starts, tickers, mainPc, wrote>>
outside == <<orderVars, pureVars, threadVars>>

vars == <<udpAddress, udpPort, appName, conn, defaultLabels, recurringSend,
          environ, crashed, last, lastOp, calls, written, pure,
          SendProcessHeartbeat, starts, tickers, mainPc, wrote>>

config == <<udpAddress, udpPort, appName, conn, defaultLabels, recurringSend, environ>>

(***************************************************************************)
(* Label resolver                                                          *)
(***************************************************************************)
AppName ==
    IF appName # "" THEN appName
    ELSE IF environ # "" THEN environ
    ELSE Args0

DefaultLabels ==
    Overlay([pid |-> Getpid, app |-> AppName], defaultLabels)

\* Mutant: the caller's labels are copied last and win over the defaults.
mergeDefaultLabels_callerWins(labels) ==
    Overlay(DefaultLabels, labels)

mergeDefaultLabels(labels) ==
    Overlay(Overlay(EmptyMap, labels), DefaultLabels)

(***************************************************************************)
(* Message builders: the field map each builder hands to send              *)
(***************************************************************************)
\* Mutant: the division rounds toward minus infinity.
convertTime_floor(t) == t \div 1000

\* t.UnixNano() / 1000: Go's integer division truncates toward zero.
convertTime(t) ==
    IF t >= 0 THEN t \div 1000 ELSE -((-t) \div 1000)

\* s[:limit] when len(s) > limit, s otherwise.
Truncate(s, limit) ==
    IF s.len > limit THEN [s EXCEPT !.len = limit] ELSE s

MarkMessage(name, value, timestamp, labels) ==
    [type |-> "mark", name |-> name, value |-> value,
     timestamp |-> convertTime(timestamp), labels |-> mergeDefaultLabels(labels)]

CounterMessage(name, value, timestamp, labels) ==
    [type |-> "counter", name |-> name, value |-> value,
     timestamp |-> convertTime(timestamp), labels |-> mergeDefaultLabels(labels)]

GaugeMessage(name, value, timestamp, labels) ==
    [type |-> "gauge", name |-> name, value |-> value,
     timestamp |-> convertTime(timestamp), labels |-> mergeDefaultLabels(labels)]

EventMessage(name, subject, body, attn, timestamp, labels) ==
    [type |-> "event", name |-> name,
     subject |-> Truncate(subject, 3072), body |-> Truncate(body, 3072),
     attn |-> attn,
     timestamp |-> convertTime(timestamp), labels |-> mergeDefaultLabels(labels)]

LogMessage(subject, data, timestamp, labels) ==
    [type |-> "log", subject |-> Truncate(subject, 7168), data |-> data,
     timestamp |-> convertTime(timestamp), labels |-> mergeDefaultLabels(labels)]

RegisterProcessMessage(name, data, timestamp, labels) ==
    [type |-> "reg_process",
     data |-> Overlay([name |-> name, language |-> "go", version |-> "0.0.1"], data),
     timestamp |-> convertTime(timestamp), labels |-> mergeDefaultLabels(labels)]

HeartbeatMessage(name, value, timeout, timestamp, labels) ==
    [type |-> "hb_process", name |-> name, value |-> value, timeout |-> timeout,
     timestamp |-> convertTime(timestamp), labels |-> mergeDefaultLabels(labels)]

(***************************************************************************)
(* encoding/json as send uses it                                           *)
(***************************************************************************)
Encodable(v) == v \notin {Chan, NaN}

\* The values of the message that are not of a fixed encodable type.
Leaves(message) ==
    {message.labels[k] : k \in DOMAIN message.labels}
    \cup (CASE message.type = "log" -> {message.data}
            [] message.type = "reg_process" ->
                   {message.data[k] : k \in DOMAIN message.data}
            [] message.type = "gauge" -> {message.value}
            [] message.type = "hb_process" -> {message.value, message.timeout}
            [] OTHER -> {})

\* json.Marshal(message) returns no error.
Marshals(message) == \A v \in Leaves(message) : Encodable(v)

\* err.Error() of a failed json.Marshal.  The encoder walks the keys in
\* sorted order, so data and labels (where a channel can be) come before
\* timeout and value (where a NaN can be).
JsonError(message) ==
    IF Chan \in Leaves(message)
    THEN Str(<<"json: unsupported type: chan bool">>, 33)
    ELSE Str(<<"json: unsupported value: NaN">>, 28)

\* fmt.Sprintf("Error marshalling json message: %s", e)
Sprintf(e) == Str(<<"Error marshalling json message: ">> \o e.text, 32 + e.len)

(***************************************************************************)
(* Dispatcher                                                              *)
(***************************************************************************)
\* What one call of send did: the datagrams handed to conn.Write, the value
\* recurringSend is left with, how deep the calls of send nested, and
\* whether a panic left the call.
Result(out, flag, depth, panic) ==
    [out |-> out, flag |-> flag, depth |-> depth, panic |-> panic]

RECURSIVE send(_, _, _, _, _)

\* Mutant: recurringSend is not consulted before the fallback log.
send_noGuard(message, flag, depth, now, werr) ==
    IF depth > MaxDepth THEN Result(<<>>, flag, depth, FALSE)
    ELSE IF ~Marshals(message) THEN
        LET r == send(LogMessage(Sprintf(JsonError(message)), "", now, EmptyMap),
                      TRUE, depth + 1, now, werr)
        IN  Result(r.out, FALSE, r.depth, r.panic)
    ELSE IF conn = NoConn THEN Result(<<>>, flag, depth, TRUE)
    ELSE Result(<<[target |-> conn, bytes |-> message, err |-> werr]>>,
                flag, depth, FALSE)

\* Mutant: recurringSend is set for the fallback log and never cleared.
send_noClear(message, flag, depth, now, werr) ==
    IF depth > MaxDepth THEN Result(<<>>, flag, depth, FALSE)
    ELSE IF ~Marshals(message) THEN
        IF flag THEN Result(<<>>, flag, depth, FALSE)
        ELSE LET r == send(LogMessage(Sprintf(JsonError(message)), "", now, EmptyMap),
                           TRUE, depth + 1, now, werr)
             IN  Result(r.out, TRUE, r.depth, r.panic)
    ELSE IF conn = NoConn THEN Result(<<>>, flag, depth, TRUE)
    ELSE Result(<<[target |-> conn, bytes |-> message, err |-> werr]>>,
                flag, depth, FALSE)

\* Mutant: an encoding failure is dropped, no fallback log is sent.
send_noFallback(message, flag, depth, now, werr) ==
    IF ~Marshals(message) THEN Result(<<>>, flag, depth, FALSE)
    ELSE IF conn = NoConn THEN Result(<<>>, flag, depth, TRUE)
    ELSE Result(<<[target |-> conn, bytes |-> message, err |-> werr]>>,
                flag, depth, FALSE)

\* Mutant: the encoded message is handed to conn.Write twice.
send_writeTwice(message, flag, depth, now, werr) ==
    IF depth > MaxDepth THEN Result(<<>>, flag, depth, FALSE)
    ELSE IF ~Marshals(message) THEN
        IF flag THEN Result(<<>>, flag, depth, FALSE)
        ELSE LET r == send(LogMessage(Sprintf(JsonError(message)), "", now, EmptyMap),
                           TRUE, depth + 1, now, werr)
             IN  Result(r.out, FALSE, r.depth, r.panic)
    ELSE IF conn = NoConn THEN Result(<<>>, flag, depth, TRUE)
    ELSE Result(<<[target |-> conn, bytes |-> message, err |-> werr],
                  [target |-> conn, bytes |-> message, err |-> werr]>>,
                flag, depth, FALSE)

\* send(message) entered with recurringSend = flag, as the depth-th nested
\* call; now is the time.Now() LogFull reads, werr whether conn.Write fails.
send(message, flag, depth, now, werr) ==
    IF depth > MaxDepth THEN Result(<<>>, flag, depth, FALSE)
    ELSE IF ~Marshals(message) THEN
        IF flag THEN Result(<<>>, flag, depth, FALSE)
        ELSE LET r == send(LogMessage(Sprintf(JsonError(message)), "", now, EmptyMap),
                           TRUE, depth + 1, now, werr)
             IN  Result(r.out, FALSE, r.depth, r.panic)
    ELSE IF conn = NoConn THEN Result(<<>>, flag, depth, TRUE)
    ELSE Result(<<[target |-> conn, bytes |-> message, err |-> werr]>>,
                flag, depth, FALSE)

(***************************************************************************)
(* Initial state: the package variables and init()                         *)
(***************************************************************************)
\* The record of a call that builds no message: its name, its argument and
\* whether a panic left it.
Call(op, arg, panic) ==
    [op |-> op, arg |-> arg, built |-> <<>>, out |-> <<>>, depth |-> 0, panic |-> panic]

Init ==
    /\ udpAddress = "127.0.0.1"
    /\ udpPort = DefaultUdpPort
    /\ appName = ""
    /\ conn = [addr |-> "127.0.0.1", port |-> DefaultUdpPort]
    /\ defaultLabels = EmptyMap
    /\ recurringSend = FALSE
    /\ environ \in EnvNames
    /\ crashed = FALSE
    /\ last = Call("init", EmptyMap, FALSE)
    /\ lastOp = [k \in PlainKeys |-> [kind |-> "never", value |-> ""]]
    /\ calls = <<>>
    /\ written = <<>>
    /\ pure = [fn |-> "none"]
    /\ SendProcessHeartbeat = TRUE
    /\ starts = <<>>
    /\ tickers = <<>>
    /\ mainPc = [op |-> "idle"]
    /\ wrote = {}

(***************************************************************************)
(* Configuration setters                                                   *)
(***************************************************************************)
\* net.Dial("udp", "address:port"): the connected socket, or nil and an error.
Dial(address, port) ==
    IF address \in Resolvable THEN [addr |-> address, port |-> port] ELSE NoConn

\* Mutant: the error of net.Dial is dropped instead of raised.
establishConn_noPanic(address, port) ==
    [conn |-> Dial(address, port), panic |-> FALSE]

\* conn, err = net.Dial(...); if err != nil { panic(err) }
establishConn(address, port) ==
    [conn |-> Dial(address, port), panic |-> Dial(address, port) = NoConn]

SetUdpAddress ==
    \E address \in Addresses :
        LET e == establishConn(address, udpPort) IN
        /\ ~crashed
        /\ udpAddress' = address
        /\ conn' = e.conn
        /\ crashed' = e.panic
        /\ last' = Call("SetUdpAddress", EmptyMap, e.panic)
        /\ UNCHANGED <<udpPort, appName, defaultLabels, recurringSend, environ, lastOp>>
        /\ UNCHANGED outside

\* Mutant: the port is stored and the socket is left as it was.
SetUdpPort_noDial ==
    \E port \in Ports :
        /\ ~crashed
        /\ udpPort' = port
        /\ last' = Call("SetUdpPort", EmptyMap, FALSE)
        /\ UNCHANGED <<udpAddress, conn, crashed, appName, defaultLabels,
                       recurringSend, environ, lastOp>>
        /\ UNCHANGED outside

SetUdpPort ==
    \E port \in Ports :
        LET e == establishConn(udpAddress, port) IN
        /\ ~crashed
        /\ udpPort' = port
        /\ conn' = e.conn
        /\ crashed' = e.panic
        /\ last' = Call("SetUdpPort", EmptyMap, e.panic)
        /\ UNCHANGED <<udpAddress, appName, defaultLabels, recurringSend, environ, lastOp>>
        /\ UNCHANGED outside

SetAppName ==
    \E name \in AppNames :
        /\ ~crashed
        /\ appName' = name
        /\ last' = Call("SetAppName", EmptyMap, FALSE)
        /\ UNCHANGED <<udpAddress, udpPort, conn, defaultLabels, recurringSend,
                       environ, crashed, lastOp>>
        /\ UNCHANGED outside

\* os.Setenv("HASTUR_APP_NAME", name), done by the program around the library.
Setenv ==
    \E name \in EnvNames :
        /\ ~crashed
        /\ environ' = name
        /\ last' = Call("Setenv", EmptyMap, FALSE)
        /\ UNCHANGED <<udpAddress, udpPort, appName, conn, defaultLabels,
                       recurringSend, crashed, lastOp>>
        /\ UNCHANGED outside

\* Mutant: a label that is already stored keeps its old value.
AddDefaultLabels_insertOnly ==
    \E labels \in AddInputs :
        /\ ~crashed
        /\ defaultLabels' = Overlay(labels, defaultLabels)
        /\ lastOp' = [k \in PlainKeys |->
                        IF k \in DOMAIN labels
                        THEN [kind |-> "added", value |-> labels[k]]
                        ELSE lastOp[k]]
        /\ last' = Call("AddDefaultLabels", labels, FALSE)
        /\ UNCHANGED <<udpAddress, udpPort, appName, conn, recurringSend,
                       environ, crashed>>
        /\ UNCHANGED outside

AddDefaultLabels ==
    \E labels \in AddInputs :
        /\ ~crashed
        /\ defaultLabels' = Overlay(defaultLabels, labels)
        /\ lastOp' = [k \in PlainKeys |->
                        IF k \in DOMAIN labels
                        THEN [kind |-> "added", value |-> labels[k]]
                        ELSE lastOp[k]]
        /\ last' = Call("AddDefaultLabels", labels, FALSE)
        /\ UNCHANGED <<udpAddress, udpPort, appName, conn, recurringSend,
                       environ, crashed>>
        /\ UNCHANGED outside

RemoveDefaultLabels ==
    \E labels \in RemoveInputs :
        /\ ~crashed
        /\ defaultLabels' = Without(defaultLabels, labels)
        /\ lastOp' = [k \in PlainKeys |->
                        IF k \in labels
                        THEN [kind |-> "removed", value |-> ""]
                        ELSE lastOp[k]]
        /\ last' = Call("RemoveDefaultLabels", labels, FALSE)
        /\ UNCHANGED <<udpAddress, udpPort, appName, conn, recurringSend,
                       environ, crashed>>
        /\ UNCHANGED outside

(***************************************************************************)
(* Builder calls                                                           *)
(***************************************************************************)
\* What a builder call does to the package: the message goes through send;
\* nothing else is touched.
Sends(op, labels, message, now, werr) ==
    LET r == send(message, recurringSend, 1, now, werr) IN
    /\ ~crashed
    /\ recurringSend' = r.flag
    /\ crashed' = r.panic
    /\ last' = [op |-> op, arg |-> labels, built |-> message, out |-> r.out,
                depth |-> r.depth, panic |-> r.panic]
    /\ UNCHANGED <<udpAddress, udpPort, appName, conn, defaultLabels, environ, lastOp>>

\* A builder call on the caller's thread.
Emit(op, labels, message, now, werr) ==
    /\ Sends(op, labels, message, now, werr)
    /\ UNCHANGED outside

MarkFull ==
    \E labels \in CallerLabels, timestamp \in Times, now \in Times, werr \in BOOLEAN :
        Emit("MarkFull", labels, MarkMessage("test.mark", "baz", timestamp, labels),
             now, werr)

Mark ==
    \E now \in Times, werr \in BOOLEAN :
        Emit("Mark", EmptyMap, MarkMessage("foo", "bar", now, EmptyMap), now, werr)

CounterFull ==
    \E labels \in CallerLabels, timestamp \in Times, now \in Times, werr \in BOOLEAN :
        Emit("CounterFull", labels,
             CounterMessage("test.counter", "10", timestamp, labels), now, werr)

Counter ==
    \E now \in Times, werr \in BOOLEAN :
        Emit("Counter", EmptyMap,
             CounterMessage("test.counter", "10", now, EmptyMap), now, werr)

GaugeFull ==
    \E labels \in CallerLabels, value \in GaugeValues, timestamp \in Times,
       now \in Times, werr \in BOOLEAN :
        Emit("GaugeFull", labels, GaugeMessage("test.gauge", value, timestamp, labels),
             now, werr)

Gauge ==
    \E value \in GaugeValues, now \in Times, werr \in BOOLEAN :
        Emit("Gauge", EmptyMap, GaugeMessage("test.gauge", value, now, EmptyMap),
             now, werr)

EventFull ==
    \E labels \in CallerLabels, timestamp \in Times, now \in Times, werr \in BOOLEAN :
        Emit("EventFull", labels,
             EventMessage("test.event", Str(<<"hey">>, 3), Str(<<"there">>, 5),
                          <<"foo@bar.com">>, timestamp, labels),
             now, werr)

Event ==
    \E now \in Times, werr \in BOOLEAN :
        Emit("Event", EmptyMap,
             EventMessage("test.event", Str(<<"hey">>, 3), Str(<<"there">>, 5),
                          <<"foo@bar.com">>, now, EmptyMap),
             now, werr)

LogFull ==
    \E labels \in CallerLabels, data \in LogData, timestamp \in Times,
       now \in Times, werr \in BOOLEAN :
        Emit("LogFull", labels, LogMessage(Str(<<"hey">>, 3), data, timestamp, labels),
             now, werr)

Log ==
    \E data \in LogData, now \in Times, werr \in BOOLEAN :
        Emit("Log", EmptyMap, LogMessage(Str(<<"hey">>, 3), data, now, EmptyMap),
             now, werr)

RegisterProcess ==
    \E labels \in CallerLabels, data \in ProcessData, timestamp \in Times,
       now \in Times, werr \in BOOLEAN :
        Emit("RegisterProcess", labels,
             RegisterProcessMessage("test.process", data, timestamp, labels), now, werr)

HeartbeatFull ==
    \E labels \in CallerLabels, timestamp \in Times, now \in Times, werr \in BOOLEAN :
        Emit("HeartbeatFull", labels,
             HeartbeatMessage("application.heartbeat", "0", "0", timestamp, labels),
             now, werr)

Heartbeat ==
    \E now \in Times, werr \in BOOLEAN :
        Emit("Heartbeat", EmptyMap,
             HeartbeatMessage("process_heartbeat", "0", "0", now, EmptyMap), now, werr)

Builders == {"MarkFull", "Mark", "CounterFull", "Counter", "GaugeFull", "Gauge",
             "EventFull", "Event", "LogFull", "Log", "RegisterProcess",
             "HeartbeatFull", "Heartbeat"}

Next ==
    \/ SetUdpAddress \/ SetUdpPort \/ SetAppName \/ Setenv
    \/ AddDefaultLabels \/ RemoveDefaultLabels
    \/ MarkFull \/ Mark \/ CounterFull \/ Counter \/ GaugeFull \/ Gauge
    \/ EventFull \/ Event \/ LogFull \/ Log \/ RegisterProcess
    \/ HeartbeatFull \/ Heartbeat

Spec == Init /\ [][Next]_vars

(***************************************************************************)
(* Properties                                                              *)
(***************************************************************************)
\* The datagrams the latest builder call handed to conn.Write.
Emitted == IF last.op \in Builders THEN DOMAIN last.out ELSE {}

\* The labels of the i-th of them, and the caller labels that went into it:
\* the call's own argument for the message it built, none for a fallback log.
LabelsOf(i) == last.out[i].bytes.labels
CallerOf(i) == IF last.depth = 1 THEN last.arg ELSE EmptyMap

\* The fallback log of the latest call would encode: it carries the default
\* labels, an empty data string and the error text.
FallbackEncodable == \A k \in DOMAIN DefaultLabels : Encodable(DefaultLabels[k])

\* C1: in every emitted message labels["app"] is what AppName() resolves to
\* and labels["pid"] is the process id, whatever the stored default labels
\* and the caller's labels hold under the keys app and pid.
C1_ReservedLabelsFresh ==
    \A i \in Emitted :
        /\ LabelsOf(i)["app"] = AppName
        /\ LabelsOf(i)["pid"] = Getpid

\* C2: the emitted labels are the caller's labels overlaid by the defaults:
\* a plain key in both the stored defaults and the caller's labels carries
\* the stored value, a caller key that is no default key carries the
\* caller's value, and every stored default key is emitted.
C2_DefaultsOverlayCaller ==
    \A i \in Emitted :
        /\ \A k \in (DOMAIN defaultLabels \cap DOMAIN CallerOf(i)) \ ReservedKeys :
               LabelsOf(i)[k] = defaultLabels[k]
        /\ \A k \in DOMAIN CallerOf(i) \ (DOMAIN defaultLabels \cup ReservedKeys) :
               k \in DOMAIN LabelsOf(i) /\ LabelsOf(i)[k] = CallerOf(i)[k]
        /\ DOMAIN defaultLabels \subseteq DOMAIN LabelsOf(i)

\* C2 witness: a message was emitted whose caller set label2 to one value
\* while the stored defaults set it to another; label1 came from the caller.
C2_Witness ==
    /\ last.op \in Builders /\ Len(last.out) = 1 /\ last.depth = 1
    /\ "label2" \in DOMAIN last.arg /\ "label2" \in DOMAIN defaultLabels
    /\ last.arg["label2"] # defaultLabels["label2"]
    /\ LabelsOf(1)["label2"] = defaultLabels["label2"]
    /\ LabelsOf(1)["label1"] = "value1"

\* C3: a builder call whose message does not encode writes exactly one
\* datagram, a log message whose subject is the encoding error and whose
\* labels carry app and pid, and does not write the message it built,
\* provided the fallback log encodes.
C3_FallbackLogReplaces ==
    (last.op \in Builders /\ ~Marshals(last.built) /\ FallbackEncodable) =>
        /\ Len(last.out) = 1
        /\ last.out[1].bytes # last.built
        /\ last.out[1].bytes.type = "log"
        /\ last.out[1].bytes.subject.text =
               <<"Error marshalling json message: ">> \o JsonError(last.built).text
        /\ {"app", "pid"} \subseteq DOMAIN LabelsOf(1)

\* C3 witness: MarkFull with a channel as a label value was answered by one
\* log message that names the unsupported type.
C3_Witness ==
    /\ last.op = "MarkFull" /\ last.arg = [foo |-> Chan]
    /\ Len(last.out) = 1
    /\ last.out[1].bytes.type = "log"
    /\ last.out[1].bytes.subject.text[2] = "json: unsupported type: chan bool"

\* C4: send nests at most two deep (the builder's send and the send of its
\* fallback log); when the fallback log does not encode either, the call
\* returns with nothing written and no further fallback.
C4_OneLevelOfFallback ==
    last.op \in Builders =>
        /\ last.depth <= 2
        /\ (~Marshals(last.built) /\ ~FallbackEncodable) =>
               (last.depth = 2 /\ last.out = <<>> /\ ~last.panic)

\* C4 witness: a stored default label holds a channel, the message built did
\* not encode, its fallback log did not either, and nothing was written.
C4_Witness ==
    /\ last.op \in Builders /\ last.depth = 2 /\ last.out = <<>>
    /\ "label2" \in DOMAIN defaultLabels /\ defaultLabels["label2"] = Chan

\* C5: recurringSend is false whenever no send is running, so every builder
\* call whose message does not encode gets its fallback log attempt.
C5_FlagClearedAfterSend ==
    /\ recurringSend = FALSE
    /\ (last.op \in Builders /\ ~Marshals(last.built)) => last.depth = 2

\* C5 witness: both exits of the fallback attempt were taken with the flag
\* false afterwards; here the one where the fallback log was dropped.
C5_Witness ==
    /\ last.op \in Builders /\ ~Marshals(last.built)
    /\ last.depth = 2 /\ last.out = <<>> /\ recurringSend = FALSE

\* C6: for a plain key k the caller does not give, an emitted message
\* carries labels[k] = v exactly when the latest AddDefaultLabels or
\* RemoveDefaultLabels naming k was an Add that set k to v, and carries no k
\* when k was never added or was removed last.
C6_LatestAddOrRemoveDecides ==
    \A i \in Emitted : \A k \in PlainKeys \ DOMAIN CallerOf(i) :
        IF lastOp[k].kind = "added"
        THEN k \in DOMAIN LabelsOf(i) /\ LabelsOf(i)[k] = lastOp[k].value
        ELSE k \notin DOMAIN LabelsOf(i)

\* C6 witness: label2 was added, then removed, and the message emitted after
\* that has no label2.
C6_Witness ==
    /\ last.op \in Builders /\ Len(last.out) = 1
    /\ lastOp["label2"].kind = "removed"
    /\ "label2" \notin DOMAIN LabelsOf(1)

\* C6 witness of the upsert: label2 was set again to another value and the
\* message emitted carries the later one.
C6_WitnessUpsert ==
    /\ last.op \in Builders /\ Len(last.out) = 1
    /\ lastOp["label2"] = [kind |-> "added", value |-> "other2"]
    /\ LabelsOf(1)["label2"] = "other2"

\* C7: the app label of every emitted message is the override of SetAppName
\* when that is not empty, else HASTUR_APP_NAME when that is not empty, else
\* the name the executable was invoked with.
C7_AppLabelByPriority ==
    \A i \in Emitted :
        LabelsOf(i)["app"] =
            (IF appName # "" THEN appName
             ELSE IF environ # "" THEN environ
             ELSE "hastur.test")

\* C8: RemoveDefaultLabels of keys that were never added leaves the stored
\* set and the rest of the configuration as they were, and
\* RemoveDefaultLabels of app or pid changes nothing of the labels the next
\* message is given.
C8_RemoveWithoutEffect ==
    [][ (/\ last'.op = "RemoveDefaultLabels"
         /\ \A k \in last'.arg :
                \/ k \in ReservedKeys
                \/ k \in PlainKeys /\ lastOp[k].kind = "never")
        => /\ DefaultLabels' = DefaultLabels
           /\ (last'.arg \cap ReservedKeys = {}) => defaultLabels' = defaultLabels
           /\ UNCHANGED <<udpAddress, udpPort, appName, conn, recurringSend, environ>>
      ]_vars

\* The target the configuration names.
Target == [addr |-> udpAddress, port |-> udpPort]

\* C9: once a setter has returned the socket is connected to the configured
\* address and port, every datagram goes to that target, and the first
\* target is 127.0.0.1:8125.
C9_SocketFollowsSetters ==
    /\ ~crashed => conn = Target
    /\ last.op \in {"SetUdpAddress", "SetUdpPort"} /\ ~last.panic => conn = Target
    /\ \A i \in Emitted : last.out[i].target = Target
    /\ last.op = "init" => conn = [addr |-> "127.0.0.1", port |-> 8125]

\* C9 witness: after SetUdpPort(8126) a message was written to port 8126.
C9_Witness ==
    /\ last.op \in Builders /\ Len(last.out) = 1
    /\ udpPort = TestUdpPort
    /\ last.out[1].target = [addr |-> "127.0.0.1", port |-> TestUdpPort]

MaxCalls == 3

\* A builder call of the caller's thread with the write history kept: the
\* call is numbered, and every datagram send hands to conn.Write is appended
\* with the number of its call and whether it holds the message of the call.
Recorded(op, labels, message, now, werr) ==
    LET r == send(message, recurringSend, 1, now, werr)
        n == Len(calls) + 1
    IN  /\ Len(calls) < MaxCalls
        /\ Sends(op, labels, message, now, werr)
        /\ calls' = Append(calls, Marshals(message))
        /\ written' = written \o
               [i \in DOMAIN r.out |-> [call |-> n, whole |-> r.out[i].bytes = message]]
        /\ UNCHANGED <<pureVars, threadVars>>

RecordedMarkFull ==
    \E labels \in CallerLabels, timestamp \in Times, now \in Times, werr \in BOOLEAN :
        Recorded("MarkFull", labels, MarkMessage("test.mark", "baz", timestamp, labels),
                 now, werr)

RecordedGauge ==
    \E value \in GaugeValues, now \in Times, werr \in BOOLEAN :
        Recorded("Gauge", EmptyMap, GaugeMessage("test.gauge", value, now, EmptyMap),
                 now, werr)

RecordedLog ==
    \E data \in LogData, now \in Times, werr \in BOOLEAN :
        Recorded("Log", EmptyMap, LogMessage(Str(<<"hey">>, 3), data, now, EmptyMap),
                 now, werr)

NextOrder ==
    \/ RecordedMarkFull \/ RecordedGauge \/ RecordedLog
    \/ AddDefaultLabels \/ RemoveDefaultLabels

SpecOrder == Init /\ [][NextOrder]_vars

\* C11: a builder call whose message encodes has exactly one entry in the
\* write history, a datagram that holds the message of the call; no call
\* has more than one entry; and the entries are in call order, so that n
\* such calls give n writes in the order of the calls.
C11_OneWritePerCallInOrder ==
    /\ \A n \in DOMAIN calls :
           LET entries == {j \in DOMAIN written : written[j].call = n} IN
           /\ Cardinality(entries) <= 1
           /\ calls[n] => /\ Cardinality(entries) = 1
                          /\ \A j \in entries : written[j].whole
    /\ \A j, k \in DOMAIN written : j < k => written[j].call < written[k].call
    /\ \A j \in DOMAIN written : written[j].call \in DOMAIN calls

\* C11 witness: three calls whose messages encode were made, and the write
\* history holds their three datagrams in the order of the calls.
C11_Witness ==
    /\ calls = <<TRUE, TRUE, TRUE>>
    /\ written = <<[call |-> 1, whole |-> TRUE], [call |-> 2, whole |-> TRUE],
                   [call |-> 3, whole |-> TRUE]>>

(***************************************************************************)
(* Builders as functions of their arguments                                *)
(***************************************************************************)
\* The bytes a character takes in UTF-8: ASCII, U+0080..U+07FF, U+0800 up.
Widths == {1, 2, 3}

\* Strings whose number of characters is at, next to and far from limit.
Around(limit) ==
    {Utf8(<<"x">>, runes, width) :
        runes \in {3, limit - 1, limit, limit + 1, 2 * limit}, width \in Widths}

\* A builder is a function of its arguments and of the configuration, so
\* each behaviour applies one builder once, to arguments of its choice.
\* EventFull applied to subjects and bodies around its limit.
TruncatingEventFull ==
    /\ pure.fn = "none"
    /\ \E subject \in Around(3072), body \in Around(3072), now \in Times :
        /\ Sends("EventFull", EmptyMap,
                 EventMessage("test.event", subject, body, <<"foo@bar.com">>,
                              now, EmptyMap),
                 now, FALSE)
        /\ pure' = [fn |-> "EventFull", in |-> <<subject, body>>]
        /\ UNCHANGED <<orderVars, threadVars>>

\* LogFull applied to subjects around its limit.
TruncatingLogFull ==
    /\ pure.fn = "none"
    /\ \E subject \in Around(7168), now \in Times :
        /\ Sends("LogFull", EmptyMap, LogMessage(subject, "there", now, EmptyMap),
                 now, FALSE)
        /\ pure' = [fn |-> "LogFull", in |-> <<subject>>]
        /\ UNCHANGED <<orderVars, threadVars>>

\* The number of characters of a string, and its first n characters.
Runes(s) == s.len \div s.width
FirstRunes(s, n) == IF Runes(s) > n THEN [s EXCEPT !.len = n * s.width] ELSE s

\* C12: the emitted event subject and body are the first 3072 characters of
\* the input (the input itself when it has no more), the emitted log subject
\* the first 7168 characters, and the message is emitted in every case.
C12_TruncatedToLimit ==
    /\ pure.fn = "EventFull" =>
           /\ Len(last.out) = 1
           /\ last.out[1].bytes.subject = FirstRunes(pure.in[1], 3072)
           /\ last.out[1].bytes.body = FirstRunes(pure.in[2], 3072)
    /\ pure.fn = "LogFull" =>
           /\ Len(last.out) = 1
           /\ last.out[1].bytes.subject = FirstRunes(pure.in[1], 7168)

\* The largest distance from the epoch, in nanoseconds, of the times given.
MaxNanos == 2500

\* t.UnixNano() of the times given, before and after the epoch.
Nanos == -MaxNanos .. MaxNanos

\* The message each builder assembles for a timestamp.
Stamped(timestamp) ==
    { <<"MarkFull", MarkMessage("test.mark", "baz", timestamp, EmptyMap)>>,
      <<"CounterFull", CounterMessage("test.counter", "10", timestamp, EmptyMap)>>,
      <<"GaugeFull", GaugeMessage("test.gauge", "1.234", timestamp, EmptyMap)>>,
      <<"EventFull", EventMessage("test.event", Str(<<"hey">>, 3), Str(<<"there">>, 5),
                                  <<"foo@bar.com">>, timestamp, EmptyMap)>>,
      <<"LogFull", LogMessage(Str(<<"hey">>, 3), "there", timestamp, EmptyMap)>>,
      <<"RegisterProcess",
        RegisterProcessMessage("test.process", [haz |-> "data"], timestamp, EmptyMap)>>,
      <<"HeartbeatFull",
        HeartbeatMessage("test.heartbeat", "0", "0", timestamp, EmptyMap)>> }

\* A builder applied to a timestamp before, at or after the epoch.
Timestamped ==
    /\ pure.fn = "none"
    /\ \E timestamp \in Nanos, now \in Times :
        \E call \in Stamped(timestamp) :
            /\ Sends(call[1], EmptyMap, call[2], now, FALSE)
            /\ pure' = [fn |-> "convertTime", in |-> <<timestamp>>]
            /\ UNCHANGED <<orderVars, threadVars>>

NextPure == TruncatingEventFull \/ TruncatingLogFull \/ Timestamped

SpecPure == Init /\ [][NextPure]_vars

\* C13: the timestamp of the emitted message is the nanoseconds of the given
\* time divided by 1000 and rounded toward zero, before the epoch as after
\* it, and taking it back to nanoseconds gives a time less than one
\* microsecond from the given one.
C13_MicrosTowardZero ==
    pure.fn = "convertTime" =>
        LET t == pure.in[1]
            micros == last.out[1].bytes.timestamp
        IN  /\ Len(last.out) = 1
            /\ t >= 0 => (micros >= 0 /\ 1000 * micros <= t /\ t < 1000 * (micros + 1))
            /\ t < 0 => (micros <= 0 /\ 1000 * micros >= t /\ t > 1000 * (micros - 1))
            /\ t - 1000 * micros < 1000 /\ 1000 * micros - t < 1000

\* C13 witness: a time one and a half microseconds before the epoch was sent
\* as -1.
C13_Witness ==
    /\ pure.fn = "convertTime" /\ pure.in[1] = -1500
    /\ Len(last.out) = 1 /\ last.out[1].bytes.timestamp = -1

(***************************************************************************)
(* Every, Start and the goroutines they start                              *)
(***************************************************************************)
\* The goroutines, the calls of Start and the intervals per ticker followed.
MaxTickers == 1
MaxStarts == 2
MaxTicks == 3

\* type Interval: the four named values, and one that has no name.
FiveSecs == 0
Minute == 1
Hour == 2
Day == 3
Intervals == {FiveSecs, Minute, Hour, Day}
BadInterval == 4

\* The durations, in seconds.
intervalToDuration ==
    [interval \in Intervals |->
        CASE interval = FiveSecs -> 5
          [] interval = Minute -> 60
          [] interval = Hour -> 3600
          [] interval = Day -> 86400]

\* The goroutine of Every when it has just been started: no ticker yet.  C
\* is the number of ticks in the channel of its ticker (it holds one),
\* elapsed the intervals that have passed since time.NewTicker, invoked the
\* calls of callback, dropped the ticks that found the channel full, built
\* the message the running callback has assembled.  Time is counted in
\* intervals of the ticker, so the duration is not kept.
Goroutine(duration, callback) ==
    [callback |-> callback, pc |-> "go", C |-> 0,
     elapsed |-> 0, invoked |-> 0, dropped |-> 0, built |-> <<>>]

\* Mutant: the callback is run once at once, before the first tick.
Every_immediately(interval, callback) ==
    /\ ~crashed /\ mainPc.op = "idle"
    /\ Len(tickers) < MaxTickers
    /\ IF interval \in DOMAIN intervalToDuration
       THEN /\ tickers' = Append(tickers,
                    [Goroutine(intervalToDuration[interval], callback)
                        EXCEPT !.pc = "callback", !.invoked = 1])
            /\ crashed' = crashed
       ELSE /\ crashed' = TRUE
            /\ tickers' = tickers

\* Every(interval, callback): panics on an interval that has no duration,
\* starts the goroutine otherwise and returns.
Every(interval, callback) ==
    /\ ~crashed /\ mainPc.op = "idle"
    /\ Len(tickers) < MaxTickers
    /\ IF interval \in DOMAIN intervalToDuration
       THEN /\ tickers' = Append(tickers,
                    Goroutine(intervalToDuration[interval], callback))
            /\ crashed' = crashed
       ELSE /\ crashed' = TRUE
            /\ tickers' = tickers

\* What the thread actions below leave alone.
frame == <<udpAddress, udpPort, appName, conn, defaultLabels, recurringSend,
           environ, last, lastOp, orderVars, pureVars>>

\* The program calls Every with a callback of its own, as example/main.go
\* does with one that calls Counter.
CallEvery ==
    \E interval \in Intervals \cup {BadInterval} :
        /\ Every(interval, "Counter")
        /\ UNCHANGED <<frame, SendProcessHeartbeat, starts, mainPc, wrote>>

\* The program assigns the exported variable SendProcessHeartbeat.
SetSendProcessHeartbeat ==
    \E flag \in BOOLEAN :
        /\ ~crashed /\ mainPc.op = "idle"
        /\ SendProcessHeartbeat' = flag
        /\ UNCHANGED <<frame, crashed, starts, tickers, mainPc, wrote>>

\* Mutant: Start schedules the heartbeat whatever the flag holds.
Start_unconditional ==
    /\ Len(starts) < MaxStarts
    /\ starts' = Append(starts, SendProcessHeartbeat)
    /\ Every(FiveSecs, "Heartbeat")
    /\ UNCHANGED <<frame, SendProcessHeartbeat, mainPc, wrote>>

Start ==
    /\ Len(starts) < MaxStarts
    /\ starts' = Append(starts, SendProcessHeartbeat)
    /\ IF SendProcessHeartbeat
       THEN Every(FiveSecs, "Heartbeat")
       ELSE /\ ~crashed /\ mainPc.op = "idle"
            /\ UNCHANGED <<tickers, crashed>>
    /\ UNCHANGED <<frame, SendProcessHeartbeat, mainPc, wrote>>

\* The caller's thread calls Heartbeat itself.
DirectHeartbeat ==
    \E now \in Times, werr \in BOOLEAN :
        LET message == HeartbeatMessage("process_heartbeat", "0", "0", now, EmptyMap)
            r == send(message, recurringSend, 1, now, werr)
        IN  /\ mainPc.op = "idle"
            /\ Sends("Heartbeat", EmptyMap, message, now, werr)
            /\ wrote' = wrote \cup
                   {<<"caller", r.out[i].bytes.type>> : i \in DOMAIN r.out}
            /\ UNCHANGED <<orderVars, pureVars, SendProcessHeartbeat, starts,
                           tickers, mainPc>>

\* The configuration calls the caller's thread makes while goroutines run.
ConfigCalls ==
    { [op |-> "AddDefaultLabels", arg |-> [label1 |-> "value1"]],
      [op |-> "RemoveDefaultLabels", arg |-> {"label1"}],
      [op |-> "SetAppName", arg |-> "real.name"],
      [op |-> "SetUdpPort", arg |-> TestUdpPort] }

\* The package variables each configuration call writes, and the ones the
\* two halves of a callback read.
Writes(op) ==
    CASE op = "AddDefaultLabels" -> {"defaultLabels"}
      [] op = "RemoveDefaultLabels" -> {"defaultLabels"}
      [] op = "SetAppName" -> {"appName"}
      [] op = "SetUdpPort" -> {"udpPort", "conn"}
      [] OTHER -> {}
Reads(pc) ==
    CASE pc = "callback" -> {"defaultLabels", "appName"}
      [] pc = "send" -> {"conn", "recurringSend"}
      [] OTHER -> {}

\* The caller's thread enters a configuration call: nothing is written yet.
Enter ==
    \E call \in ConfigCalls :
        /\ ~crashed /\ mainPc.op = "idle"
        /\ mainPc' = call
        /\ UNCHANGED <<frame, crashed, SendProcessHeartbeat, starts, tickers, wrote>>

\* The configuration call completes its writes and returns.
Leave ==
    /\ ~crashed /\ mainPc.op # "idle"
    /\ mainPc' = [op |-> "idle"]
    /\ defaultLabels' =
           CASE mainPc.op = "AddDefaultLabels" -> Overlay(defaultLabels, mainPc.arg)
             [] mainPc.op = "RemoveDefaultLabels" -> Without(defaultLabels, mainPc.arg)
             [] OTHER -> defaultLabels
    /\ appName' = IF mainPc.op = "SetAppName" THEN mainPc.arg ELSE appName
    /\ udpPort' = IF mainPc.op = "SetUdpPort" THEN mainPc.arg ELSE udpPort
    /\ conn' = IF mainPc.op = "SetUdpPort"
               THEN establishConn(udpAddress, mainPc.arg).conn ELSE conn
    /\ crashed' = IF mainPc.op = "SetUdpPort"
                  THEN establishConn(udpAddress, mainPc.arg).panic ELSE crashed
    /\ UNCHANGED <<udpAddress, recurringSend, environ, last, lastOp, orderVars,
                   pureVars, SendProcessHeartbeat, starts, tickers, wrote>>

\* A goroutine reads, in the half pc of its callback, a variable that the
\* call the caller's thread is inside of writes.  Nothing orders the two:
\* the read sees the value before or after the write, or the runtime stops
\* the process (fatal error: concurrent map iteration and map write).
Racing(pc) == Writes(mainPc.op) \cap Reads(pc) # {}

\* ticker := time.NewTicker(duration): the goroutine has started to run.
NewTickerBy(g) ==
    /\ ~crashed /\ g \in DOMAIN tickers /\ tickers[g].pc = "go"
    /\ tickers' = [tickers EXCEPT ![g].pc = "select"]
    /\ UNCHANGED <<frame, crashed, SendProcessHeartbeat, starts, mainPc, wrote>>

NewTicker == \E g \in DOMAIN tickers : NewTickerBy(g)

\* One more interval of a ticker has passed: a tick goes into the channel,
\* or is dropped when the one before is still in it.
Elapse ==
    \E g \in DOMAIN tickers :
        /\ ~crashed /\ tickers[g].pc # "go"
        /\ tickers[g].elapsed < MaxTicks
        /\ tickers' = [tickers EXCEPT
               ![g].elapsed = @ + 1,
               ![g].C = 1,
               ![g].dropped = IF tickers[g].C = 1 THEN @ + 1 ELSE @]
        /\ UNCHANGED <<frame, crashed, SendProcessHeartbeat, starts, mainPc, wrote>>

\* case <-ticker.C: the goroutine takes the tick and calls callback.
ReceiveBy(g) ==
    /\ ~crashed /\ g \in DOMAIN tickers
    /\ tickers[g].pc = "select" /\ tickers[g].C = 1
    /\ tickers' = [tickers EXCEPT
           ![g].C = 0, ![g].pc = "callback", ![g].invoked = @ + 1]
    /\ UNCHANGED <<frame, crashed, SendProcessHeartbeat, starts, mainPc, wrote>>

Receive == \E g \in DOMAIN tickers : ReceiveBy(g)

\* The first half of the callback: the builder assembles its message, which
\* reads the stored labels and the app name.
BuildBy(g) ==
    \E now \in Times, fault \in BOOLEAN :
        LET message ==
                IF tickers[g].callback = "Heartbeat"
                THEN HeartbeatMessage("process_heartbeat", "0", "0", now, EmptyMap)
                ELSE CounterMessage("foo", "1", now, EmptyMap)
        IN  /\ ~crashed /\ g \in DOMAIN tickers /\ tickers[g].pc = "callback"
            /\ fault => Racing("callback")
            /\ crashed' = fault
            /\ tickers' = IF fault THEN tickers
                          ELSE [tickers EXCEPT ![g].pc = "send", ![g].built = message]
            /\ UNCHANGED <<frame, SendProcessHeartbeat, starts, mainPc, wrote>>

Build == \E g \in DOMAIN tickers : BuildBy(g)

\* The second half: send encodes the message and writes it to conn, and
\* the callback returns to the loop.
TransmitBy(g) ==
    \E now \in Times, werr \in BOOLEAN, fault \in BOOLEAN :
        LET r == send(tickers[g].built, recurringSend, 1, now, werr) IN
        /\ ~crashed /\ g \in DOMAIN tickers /\ tickers[g].pc = "send"
        /\ fault => Racing("send")
        /\ crashed' = (fault \/ r.panic)
        /\ recurringSend' = IF fault THEN recurringSend ELSE r.flag
        /\ wrote' = IF fault THEN wrote
                    ELSE wrote \cup {<<"goroutine", r.out[i].bytes.type>> :
                                        i \in DOMAIN r.out}
        /\ tickers' = IF fault THEN tickers
                      ELSE [tickers EXCEPT ![g].pc = "select", ![g].built = <<>>]
        /\ UNCHANGED <<udpAddress, udpPort, appName, conn, defaultLabels, environ,
                       last, lastOp, orderVars, pureVars, SendProcessHeartbeat,
                       starts, mainPc>>

Transmit == \E g \in DOMAIN tickers : TransmitBy(g)

\* The schedule: the caller's thread starts goroutines and sends heartbeats
\* of its own, and leaves the configuration alone.
NextEvery ==
    \/ CallEvery \/ SetSendProcessHeartbeat \/ Start \/ DirectHeartbeat
    \/ NewTicker \/ Elapse \/ Receive \/ Build \/ Transmit

SpecEvery == Init /\ [][NextEvery]_vars

\* Every alone: the program and Start call it, and the goroutines run.
NextTickers ==
    \/ CallEvery \/ Start
    \/ NewTicker \/ Elapse \/ Receive \/ Build \/ Transmit

\* The Go scheduler runs every goroutine that can run, and the callbacks of
\* the model return: a goroutine that can take a step takes it.
SpecTickersFair ==
    /\ Init /\ [][NextTickers]_vars
    /\ \A g \in 1..MaxTickers :
           /\ WF_vars(NewTickerBy(g)) /\ WF_vars(ReceiveBy(g))
           /\ WF_vars(BuildBy(g)) /\ WF_vars(TransmitBy(g))

\* The caller's thread calls Start and then changes the configuration while
\* the heartbeat goroutines run.
NextThreads ==
    \/ Start \/ Enter \/ Leave
    \/ NewTicker \/ Elapse \/ Receive \/ Build \/ Transmit

SpecThreads == Init /\ [][NextThreads]_vars

(***************************************************************************)
(* Properties of the schedule                                              *)
(***************************************************************************)
\* The goroutines Start has started: the ones whose callback is Heartbeat.
HeartbeatTickers == {g \in DOMAIN tickers : tickers[g].callback = "Heartbeat"}

\* C14: there are as many heartbeat goroutines as there were calls of Start
\* that found SendProcessHeartbeat true, so a call that finds it false
\* schedules nothing; and as long as no call found it true, every
\* hb_process message written comes from a heartbeat builder that the
\* caller's thread called itself.
C14_StartFollowsFlag ==
    /\ Cardinality(HeartbeatTickers) = Cardinality({i \in DOMAIN starts : starts[i]})
    /\ (\A i \in DOMAIN starts : ~starts[i]) =>
           <<"goroutine", "hb_process">> \notin wrote

\* C14 witness: Start was called once, with the flag false; there is no
\* goroutine, and the only hb_process message is the caller's own.
C14_Witness ==
    /\ starts = <<FALSE>> /\ tickers = <<>>
    /\ <<"caller", "hb_process">> \in wrote
    /\ <<"goroutine", "hb_process">> \notin wrote

\* C15 as stated: Every returns with the callback not invoked, the first
\* invocation comes after a full interval, and a goroutine that waits for
\* the next tick has invoked the callback once for every interval that has
\* passed.
C15_OncePerInterval ==
    \A g \in DOMAIN tickers :
        /\ tickers[g].pc = "go" => tickers[g].invoked = 0
        /\ tickers[g].invoked >= 1 => tickers[g].elapsed >= 1
        /\ (tickers[g].pc = "select" /\ tickers[g].C = 0) =>
               tickers[g].invoked = tickers[g].elapsed

\* The goroutines that exist stay, and none of them counts backwards.
ScheduleKept ==
    /\ Len(tickers') >= Len(tickers)
    /\ \A g \in DOMAIN tickers :
           /\ tickers'[g].callback = tickers[g].callback
           /\ tickers'[g].invoked >= tickers[g].invoked

\* C15 amended: Every returns with the callback not invoked; every interval
\* that has passed has led to one invocation, has its tick waiting in the
\* channel, or had its tick dropped because the one before was still
\* waiting; the first invocation comes after a full interval; the goroutine
\* never leaves its loop and nothing removes it, and a tick that waits in
\* the channel leads to an invocation as long as the process lives.
C15_OncePerDeliveredTick ==
    /\ [](\A g \in DOMAIN tickers :
             /\ tickers[g].pc = "go" => (tickers[g].invoked = 0 /\ tickers[g].elapsed = 0)
             /\ tickers[g].invoked + tickers[g].C + tickers[g].dropped
                    = tickers[g].elapsed
             /\ tickers[g].pc \in {"go", "select", "callback", "send"}
             /\ tickers[g].pc \in {"callback", "send"} => tickers[g].invoked >= 1)
    /\ [][ScheduleKept]_vars
    /\ \A g \in 1..MaxTickers :
           (g \in DOMAIN tickers /\ tickers[g].C = 1)
               ~> (crashed \/ (g \in DOMAIN tickers /\ tickers[g].pc = "callback"))

\* C15 witness: a goroutine is back at its select after two invocations,
\* three intervals have passed and one tick was dropped.
C15_Witness ==
    \E g \in DOMAIN tickers :
        /\ tickers[g].pc = "select" /\ tickers[g].C = 0
        /\ tickers[g].elapsed = 3 /\ tickers[g].invoked = 2 /\ tickers[g].dropped = 1

(***************************************************************************)
(* Properties of the threads                                               *)
(***************************************************************************)
\* C16: while the caller's thread is inside AddDefaultLabels,
\* RemoveDefaultLabels, SetAppName or SetUdpPort, no goroutine is inside
\* the part of its callback that reads the stored labels and the app name,
\* nor inside send, which reads conn and recurringSend.
C16_EmissionExcludesConfiguration ==
    mainPc.op # "idle" =>
        \A g \in DOMAIN tickers : tickers[g].pc \notin {"callback", "send"}

====
